---- MODULE Spec2Model ----
(***************************************************************************)
(* A model of code_analyzer.py: the file enumerator (list_files and the    *)
(* ignore rules), the streaming analysis of one file (analyze_file, a      *)
(* generator, driven by process_analysis) and main's loop over the files.  *)
(*                                                                         *)
(* A file name is a sequence of tokens, <<"a", ".ts">> for a.ts; a path is *)
(* a sequence of names; a text is a sequence of characters.  The file      *)
(* system maps each existing path to a directory or a file with content.   *)
(***************************************************************************)
EXTENDS Integers, Sequences, FiniteSets, TLC

\* ------------------------------------------------------------------ bounds
\* Chunks the inference service delivers during one run, over all files.
MaxChunks == 2
\* Characters those chunks carry, over all files.
MaxText == 3

VARIABLES
    fs,          \* the file system: path -> [kind, content]
    repo_path,   \* main: Path(directory)
    pattern,     \* main: --pattern
    overwrite,   \* main: --overwrite
    files,       \* main: the list list_files returned
    idx,         \* main: position of the for loop in files (1-based)
    pc,          \* where the program is
    total,       \* progress task: total
    completed,   \* progress task: completed
    log_buffer,  \* the log panel's lines, oldest first
    stream_panel,\* content of layout["stream"]
    content,     \* analyze_file: the text read from the file
    output_file, \* analyze_file: the report path
    analysis,    \* analyze_file: the text accumulated from the stream
    buffer,      \* process_analysis: the line buffer
    calls,       \* the prompts ollama.generate was called with, in order
    received,    \* the chunks the current stream has yielded, in order
    delivered,   \* chunks delivered during the run
    streamed,    \* characters delivered during the run
    outcome,     \* how the loop finished with each file, in order
    before       \* the file system when process_analysis was last entered or left

vars == <<fs, repo_path, pattern, overwrite, files, idx, pc, total, completed,
          log_buffer, stream_panel, content, output_file, analysis, buffer,
          calls, received, delivered, streamed, outcome, before>>

\* ------------------------------------------------------------ texts, names
NL == "\n"
Chars == {"x", NL}

Texts(n) == UNION {[1..k -> Chars] : k \in 0..n}

\* A chunk of the stream: a mapping that has a 'response', a fragment of at
\* most n characters, or has none.
Chunks(n) == {[model |-> "gemma3:27b", response |-> f] : f \in Texts(n)}
             \cup {[model |-> "gemma3:27b"]}

\* dict.get(key, default)
get(chunk, key, default) == IF key \in DOMAIN chunk THEN chunk[key] ELSE default

\* str.split('\n')
RECURSIVE split(_)
split(s) ==
    IF \E k \in 1..Len(s) : s[k] = NL
    THEN LET k == CHOOSE j \in 1..Len(s) : s[j] = NL /\ \A m \in 1..(j-1) : s[m] # NL
         IN  <<SubSeq(s, 1, k-1)>> \o split(SubSeq(s, k+1, Len(s)))
    ELSE <<s>>

\* '\n'.join(lines)
RECURSIVE join(_)
join(lines) ==
    IF lines = <<>> THEN <<>>
    ELSE IF Len(lines) = 1 THEN lines[1]
    ELSE lines[1] \o <<NL>> \o join(Tail(lines))

\* buffer[-2:]
LastTwo(b) == IF Len(b) <= 2 THEN b ELSE SubSeq(b, Len(b)-1, Len(b))

\* ------------------------------------------------------------------- paths
Dir == [kind |-> "dir", content |-> <<>>]
File(c) == [kind |-> "file", content |-> c]

exists(f, p) == p \in DOMAIN f
is_file(f, p) == p \in DOMAIN f /\ f[p].kind = "file"
is_dir(f, p) == p \in DOMAIN f /\ f[p].kind = "dir"

parent(p) == SubSeq(p, 1, Len(p)-1)
name(p) == p[Len(p)]

\* file.relative_to(repo_path)
relative_to(p, root) == SubSeq(p, Len(root)+1, Len(p))

\* PurePath.suffix: the last dotted part of the name, if the name has a stem.
suffix(p) == IF Len(name(p)) >= 2 THEN <<name(p)[Len(name(p))]>> ELSE <<>>

\* PurePath.with_suffix: the name's suffix replaced by suf.
with_suffix(p, suf) ==
    LET stem == SubSeq(name(p), 1, Len(name(p)) - Len(suffix(p)))
    IN  parent(p) \o <<stem \o suf>>

\* --------------------------------------------------------- ignore patterns
\* One line of an ignore file as pathspec's gitwildmatch reads it: a blank
\* line or a comment is no rule; "!name" re-includes; "name" matches a file
\* or directory of that name at any depth and everything below it.
ParseLine(line) ==
    IF line = <<>> \/ Head(line) = "#" THEN [include |-> "none", name |-> <<>>]
    ELSE IF Head(line) = "!" THEN [include |-> "no", name |-> Tail(line)]
    ELSE [include |-> "yes", name |-> line]

\* path.read_text().splitlines() for each ignore file that exists.
RECURSIVE load_lines(_, _, _)
load_lines(f, root, ignore_files) ==
    IF ignore_files = <<>> THEN <<>>
    ELSE LET path == root \o <<Head(ignore_files)>>
         IN  (IF exists(f, path) THEN f[path].content ELSE <<>>)
             \o load_lines(f, root, Tail(ignore_files))

load_ignore_patterns(f, root, ignore_files) ==
    LET lines == load_lines(f, root, ignore_files)
    IN  [k \in 1..Len(lines) |-> ParseLine(lines[k])]

RuleMatches(rule, rel) == \E k \in 1..Len(rel) : rel[k] = rule.name

\* PathSpec.match_file: the last rule that matches decides.
RECURSIVE match_file(_, _)
match_file(spec, rel) ==
    IF spec = <<>> THEN FALSE
    ELSE LET last == spec[Len(spec)]
         IN  IF last.include # "none" /\ RuleMatches(last, rel)
             THEN last.include = "yes"
             ELSE match_file(SubSeq(spec, 1, Len(spec)-1), rel)

should_ignore(file, ignore_spec, root) ==
    match_file(ignore_spec, relative_to(file, root))

\* ----------------------------------------------------------- file listing
\* fnmatch of one name against a glob of tokens, "*" matching any run.
RECURSIVE fnmatch(_, _)
fnmatch(nm, glob) ==
    IF glob = <<>> THEN nm = <<>>
    ELSE IF Head(glob) = "*"
         THEN \E k \in 0..Len(nm) : fnmatch(SubSeq(nm, k+1, Len(nm)), Tail(glob))
         ELSE nm # <<>> /\ Head(nm) = Head(glob) /\ fnmatch(Tail(nm), Tail(glob))

children(f, d) == {p \in DOMAIN f : Len(p) = Len(d) + 1 /\ parent(p) = d}

\* Path.rglob: the entries below d, at any depth, whose name matches.
RECURSIVE rglob(_, _, _)
rglob(f, d, glob) ==
    {p \in children(f, d) : fnmatch(name(p), glob)}
    \cup UNION {rglob(f, c, glob) : c \in {p \in children(f, d) : is_dir(f, p)}}

\* Variant: the version-control directory is not excluded.
IsListed_WithGit(f, root, ignore_spec, p) ==
    /\ is_file(f, p)
    /\ ~should_ignore(p, ignore_spec, root)

IsListed(f, root, ignore_spec, p) ==
    /\ is_file(f, p)
    /\ \A k \in 1..Len(p) : p[k] # <<".git">>
    /\ ~should_ignore(p, ignore_spec, root)

\* The set of paths list_files returns; their order is the directory scan's.
list_files(f, root, pat) ==
    LET ignore_spec == load_ignore_patterns(f, root, <<<<".gitignore">>, <<".botignore">>>>)
    IN  {p \in rglob(f, root, <<"*">> \o pat) : IsListed(f, root, ignore_spec, p)}

Orderings(S) == {s \in [1..Cardinality(S) -> S] : \A i, j \in 1..Cardinality(S) : s[i] = s[j] => i = j}

\* --------------------------------------------------------------- analysis
mkprompt(root, file, text) == [file |-> relative_to(file, root), code |-> text]

\* Variant: the report is a sibling of the source file.
ReportPath_Sibling(root, file) == with_suffix(file, suffix(file) \o <<".md">>)

\* The report path of a file, as analyze_file and main both compute it.
ReportPath(root, file) ==
    LET p == root \o <<<<"analysis">>>> \o relative_to(file, root)
    IN  with_suffix(p, suffix(p) \o <<".md">>)

Prefixes(p) == {SubSeq(p, 1, k) : k \in 1..Len(p)}

\* Path.mkdir(parents=True, exist_ok=True) fails when a file is in the way.
mkdir_blocked(f, d) == \E q \in Prefixes(d) : is_file(f, q)
mkdir(f, d) == [q \in DOMAIN f \cup Prefixes(d) |-> IF q \in DOMAIN f THEN f[q] ELSE Dir]

write_text(f, p, text) == [q \in DOMAIN f \cup {p} |-> IF q = p THEN File(text) ELSE f[q]]

\* Variant: a token is never split into lines.
TakeToken_Unsplit(b, token) == [b EXCEPT ![Len(b)] = @ \o token]

\* process_analysis: one token taken into the line buffer.
TakeToken(b, token) ==
    IF \E k \in 1..Len(token) : token[k] = NL
    THEN LET lines == split(token)
         IN  [b EXCEPT ![Len(b)] = @ \o lines[1]] \o Tail(lines)
    ELSE [b EXCEPT ![Len(b)] = @ \o token]

Panel(text, title) == [text |-> text, title |-> title]

Log(level, what, file) == [level |-> level, what |-> what, file |-> file]

\* deque(maxlen=100)
LogMax == 100

\* LayoutLogHandler.emit: the message joins the log panel's lines.
emit(buf, msg) == IF Len(buf) >= LogMax THEN Append(Tail(buf), msg) ELSE Append(buf, msg)

\* Variant: --overwrite is not consulted.
ShouldSkip_IgnoringOverwrite(f, out, ow) == exists(f, out)

\* main: the test that skips a file.
ShouldSkip(f, out, ow) == exists(f, out) /\ ~ow

\* Variant: a fragment is put in front of the text.
Accumulate_Prepending(text, part) == part \o text

\* analyze_file: analysis += part
Accumulate(text, part) == text \o part

\* --------------------------------------------------------- initial states
FromEntries(S) == [p \in {e[1] : e \in S} |-> (CHOOSE e \in S : e[1] = p)[2]]

Roots == {<<<<"repo">>>>, <<<<".git">>, <<"hooks">>>>}
Patterns == {<<".ts">>, <<".js">>}
OldReport == <<"o", "l", "d">>

\* The source tree: a.ts, lib/b.ts, lib/d.js, .git/c.ts and a directory e.ts.
Tree(root) ==
    {<<q, Dir>> : q \in Prefixes(root)}
    \cup {<<root \o <<<<"lib">>>>, Dir>>,
          <<root \o <<<<".git">>>>, Dir>>,
          <<root \o <<<<"e", ".ts">>>>, Dir>>,
          <<root \o <<<<"a", ".ts">>>>, File(<<"A">>)>>,
          <<root \o <<<<"lib">>, <<"b", ".ts">>>>, File(<<"B">>)>>,
          <<root \o <<<<"lib">>, <<"d", ".js">>>>, File(<<"D">>)>>,
          <<root \o <<<<".git">>, <<"c", ".ts">>>>, File(<<"C">>)>>}

Gitignores(root) ==
    {{}, {<<root \o <<<<".gitignore">>>>, File(<<<<"lib">>>>)>>}}

Botignores(root) ==
    {{}, {<<root \o <<<<".botignore">>>>, File(<<<<"#", "keep">>, <<>>, <<"a", ".ts">>, <<"!", "lib">>>>)>>}}

\* Nothing named analysis, a file of that name, or reports of an earlier run.
Analyses(root) ==
    {{},
     {<<root \o <<<<"analysis">>>>, File(<<"n">>)>>},
     {<<root \o <<<<"analysis">>>>, Dir>>,
      <<root \o <<<<"analysis">>, <<"a", ".ts", ".md">>>>, File(OldReport)>>}}

NoPath == <<>>

Init ==
    /\ repo_path \in Roots
    /\ pattern \in Patterns
    /\ overwrite \in BOOLEAN
    /\ \E g \in Gitignores(repo_path), b \in Botignores(repo_path), a \in Analyses(repo_path) :
           fs = FromEntries(Tree(repo_path) \cup g \cup b \cup a)
    /\ files = <<>>
    /\ idx = 1
    /\ pc = "start"
    /\ total = 0
    /\ completed = 0
    /\ log_buffer = <<>>
    /\ stream_panel = Panel(<<>>, <<>>)
    /\ content = <<>>
    /\ output_file = NoPath
    /\ analysis = <<>>
    /\ buffer = <<>>
    /\ calls = <<>>
    /\ received = <<>>
    /\ delivered = 0
    /\ streamed = 0
    /\ outcome = <<>>
    /\ before = fs

\* ---------------------------------------------------------------- actions
file == files[idx]

\* main, lines 158-204: the files are listed and the progress task created.
Main_ListFiles ==
    /\ pc = "start"
    /\ \E order \in Orderings(list_files(fs, repo_path, pattern)) : files' = order
    /\ total' = Len(files')
    /\ log_buffer' = emit(log_buffer, Log("info", "found", <<>>))
    /\ pc' = "loop"
    /\ UNCHANGED <<fs, repo_path, pattern, overwrite, idx, completed, stream_panel,
                   content, output_file, analysis, buffer, calls, received,
                   delivered, streamed, outcome, before>>

\* Variant: the skip branch does not advance the progress task.
Main_Skip_NoAdvance ==
    /\ pc = "loop"
    /\ idx <= Len(files)
    /\ ShouldSkip(fs, ReportPath(repo_path, file), overwrite)
    /\ log_buffer' = emit(log_buffer, Log("info", "skipping", relative_to(file, repo_path)))
    /\ idx' = idx + 1
    /\ outcome' = Append(outcome, "skipped")
    /\ UNCHANGED <<fs, repo_path, pattern, overwrite, files, pc, total, completed,
                   stream_panel, content, output_file, analysis, buffer, calls,
                   received, delivered, streamed, before>>

\* main, lines 205-212: the report exists and --overwrite is not set.
Main_Skip ==
    /\ pc = "loop"
    /\ idx <= Len(files)
    /\ ShouldSkip(fs, ReportPath(repo_path, file), overwrite)
    /\ log_buffer' = emit(log_buffer, Log("info", "skipping", relative_to(file, repo_path)))
    /\ completed' = completed + 1
    /\ idx' = idx + 1
    /\ outcome' = Append(outcome, "skipped")
    /\ UNCHANGED <<fs, repo_path, pattern, overwrite, files, pc, total, stream_panel,
                   content, output_file, analysis, buffer, calls, received, delivered, streamed, before>>

\* main, line 214, and process_analysis, line 138: the analysis is entered.
Main_Process ==
    /\ pc = "loop"
    /\ idx <= Len(files)
    /\ ~ShouldSkip(fs, ReportPath(repo_path, file), overwrite)
    /\ buffer' = <<<<>>>>
    /\ received' = <<>>
    /\ pc' = "read"
    /\ before' = fs
    /\ UNCHANGED <<fs, repo_path, pattern, overwrite, files, idx, total, completed,
                   log_buffer, stream_panel, content, output_file, analysis, calls,
                   delivered, streamed, outcome>>

\* analyze_file, lines 106-110: the file is read, or the read raises.
Analyze_Read ==
    /\ pc = "read"
    /\ \E ok \in BOOLEAN :
          IF ok
          THEN /\ content' = fs[file].content
               /\ pc' = "prepare"
               /\ UNCHANGED <<log_buffer, outcome>>
          ELSE /\ log_buffer' = emit(log_buffer, Log("error", "reading", file))
               /\ outcome' = Append(outcome, "read_error")
               /\ pc' = "after"
               /\ UNCHANGED content
    /\ UNCHANGED <<fs, repo_path, pattern, overwrite, files, idx, total, completed,
                   stream_panel, output_file, analysis, buffer, calls, received,
                   delivered, streamed, before>>

\* analyze_file, lines 112-118: the report path and its directories.  mkdir
\* is outside every try, so its exception leaves analyze_file and main.
Analyze_Prepare ==
    /\ pc = "prepare"
    /\ output_file' = ReportPath(repo_path, file)
    /\ \E ok \in BOOLEAN :
          IF ok /\ ~mkdir_blocked(fs, parent(output_file'))
          THEN /\ fs' = mkdir(fs, parent(output_file'))
               /\ analysis' = <<>>
               /\ pc' = "generate"
               /\ UNCHANGED outcome
          ELSE /\ outcome' = Append(outcome, "mkdir_error")
               /\ pc' = "crashed"
               /\ UNCHANGED <<fs, analysis>>
    /\ UNCHANGED <<repo_path, pattern, overwrite, files, idx, total, completed,
                   log_buffer, stream_panel, content, buffer, calls, received,
                   delivered, streamed, before>>

\* analyze_file, line 121: the inference call, which may raise.
Analyze_Generate ==
    /\ pc = "generate"
    /\ calls' = Append(calls, mkprompt(repo_path, file, content))
    /\ \E ok \in BOOLEAN :
          IF ok
          THEN /\ pc' = "stream"
               /\ UNCHANGED <<log_buffer, outcome>>
          ELSE /\ log_buffer' = emit(log_buffer, Log("error", "analyzing", file))
               /\ outcome' = Append(outcome, "infer_error")
               /\ pc' = "after"
    /\ UNCHANGED <<fs, repo_path, pattern, overwrite, files, idx, total, completed,
                   stream_panel, content, output_file, analysis, buffer, received,
                   delivered, streamed, before>>

\* analyze_file, lines 122-125, and process_analysis, lines 139-150: one
\* chunk arrives, its fragment is accumulated, yielded and shown.
Analyze_Chunk ==
    /\ pc = "stream"
    /\ delivered < MaxChunks
    /\ \E chunk \in Chunks(MaxText - streamed) :
          LET part == get(chunk, "response", <<>>)
          IN  /\ analysis' = Accumulate(analysis, part)
              /\ buffer' = TakeToken(buffer, part)
              /\ received' = Append(received, chunk)
              /\ streamed' = streamed + Len(part)
    /\ stream_panel' = Panel(join(LastTwo(buffer')), name(file))
    /\ delivered' = delivered + 1
    /\ UNCHANGED <<fs, repo_path, pattern, overwrite, files, idx, pc, total, completed,
                   log_buffer, content, output_file, calls, outcome, before>>

\* Variant: a stream that raises is started again.
Analyze_StreamError_Retry ==
    /\ pc = "stream"
    /\ Len(calls) < Len(files) + 1
    /\ log_buffer' = emit(log_buffer, Log("error", "analyzing", file))
    /\ pc' = "generate"
    /\ UNCHANGED <<fs, repo_path, pattern, overwrite, files, idx, total, completed,
                   stream_panel, content, output_file, analysis, buffer, calls,
                   received, delivered, streamed, outcome, before>>

\* Variant: a stream that raises leaves its partial text in the report.
Analyze_StreamError_Flush ==
    /\ pc = "stream"
    /\ fs' = write_text(fs, output_file, analysis)
    /\ log_buffer' = emit(log_buffer, Log("error", "analyzing", file))
    /\ outcome' = Append(outcome, "infer_error")
    /\ pc' = "after"
    /\ UNCHANGED <<repo_path, pattern, overwrite, files, idx, total, completed,
                   stream_panel, content, output_file, analysis, buffer, calls,
                   received, delivered, streamed, before>>

\* analyze_file, lines 126-128: the stream raises.
Analyze_StreamError ==
    /\ pc = "stream"
    /\ log_buffer' = emit(log_buffer, Log("error", "analyzing", file))
    /\ outcome' = Append(outcome, "infer_error")
    /\ pc' = "after"
    /\ UNCHANGED <<fs, repo_path, pattern, overwrite, files, idx, total, completed,
                   stream_panel, content, output_file, analysis, buffer, calls,
                   received, delivered, streamed, before>>

\* analyze_file, line 122: the stream is exhausted.
Analyze_StreamEnd ==
    /\ pc = "stream"
    /\ pc' = "write"
    /\ UNCHANGED <<fs, repo_path, pattern, overwrite, files, idx, total, completed,
                   log_buffer, stream_panel, content, output_file, analysis, buffer,
                   calls, received, delivered, streamed, outcome, before>>

\* analyze_file, lines 130-134: the report is written; a write that raises
\* leaves the path as it was or holding a proper prefix of the text.
Analyze_Write ==
    /\ pc = "write"
    /\ \/ /\ fs' = write_text(fs, output_file, analysis)
          /\ outcome' = Append(outcome, "written")
          /\ UNCHANGED log_buffer
       \/ /\ \/ fs' = fs
             \/ \E k \in 0..(Len(analysis) - 1) :
                   fs' = write_text(fs, output_file, SubSeq(analysis, 1, k))
          /\ log_buffer' = emit(log_buffer, Log("error", "writing", output_file))
          /\ outcome' = Append(outcome, "write_error")
    /\ pc' = "after"
    /\ UNCHANGED <<repo_path, pattern, overwrite, files, idx, total, completed,
                   stream_panel, content, output_file, analysis, buffer, calls,
                   received, delivered, streamed, before>>

\* main, lines 215-217: process_analysis has returned.
Main_Completed ==
    /\ pc = "after"
    /\ log_buffer' = emit(log_buffer, Log("info", "completed", relative_to(file, repo_path)))
    /\ completed' = completed + 1
    /\ idx' = idx + 1
    /\ pc' = "loop"
    /\ content' = <<>>
    /\ output_file' = NoPath
    /\ analysis' = <<>>
    /\ buffer' = <<>>
    /\ received' = <<>>
    /\ before' = fs
    /\ UNCHANGED <<fs, repo_path, pattern, overwrite, files, total, stream_panel,
                   calls, delivered, streamed, outcome>>

\* main, line 219: the loop is over.
Main_Finish ==
    /\ pc = "loop"
    /\ idx > Len(files)
    /\ log_buffer' = emit(log_buffer, Log("info", "all processed", <<>>))
    /\ pc' = "done"
    /\ UNCHANGED <<fs, repo_path, pattern, overwrite, files, idx, total, completed,
                   stream_panel, content, output_file, analysis, buffer, calls,
                   received, delivered, streamed, outcome, before>>

Next ==
    \/ Main_ListFiles
    \/ Main_Skip
    \/ Main_Process
    \/ Analyze_Read
    \/ Analyze_Prepare
    \/ Analyze_Generate
    \/ Analyze_Chunk
    \/ Analyze_StreamError
    \/ Analyze_StreamEnd
    \/ Analyze_Write
    \/ Main_Completed
    \/ Main_Finish

Spec == Init /\ [][Next]_vars

\* ----------------------------------------------------------- properties
InFlight == pc \in {"read", "prepare", "generate", "stream", "write"}

LastOutcome == outcome[Len(outcome)]

\* The text a sequence of chunks carries: the 'response' of each, in order.
RECURSIVE Responses(_)
Responses(chunks) ==
    IF chunks = <<>> THEN <<>>
    ELSE (IF "response" \in DOMAIN Head(chunks) THEN Head(chunks).response ELSE <<>>)
         \o Responses(Tail(chunks))

\* The last two lines of a text: what follows its last but one newline.
LastTwoLines(text) ==
    LET nls == {k \in 1..Len(text) : text[k] = NL}
    IN  IF Cardinality(nls) < 2 THEN text
        ELSE LET m == CHOOSE k \in nls : Cardinality({j \in nls : j > k}) = 1
             IN  SubSeq(text, m+1, Len(text))

\* <root>/analysis/<directory of the file below the root>/<file name>.md
MirroredReport(f) ==
    repo_path \o <<<<"analysis">>>> \o parent(relative_to(f, repo_path))
        \o <<name(f) \o <<".md">>>>

Logged(level, what, f) ==
    Cardinality({k \in 1..Len(log_buffer) : log_buffer[k] = Log(level, what, f)})

ErrorsLogged(f) ==
    Cardinality({k \in 1..Len(log_buffer) :
        /\ log_buffer[k].level = "error"
        /\ log_buffer[k].file \in {f, MirroredReport(f)}})

Failures == {"read_error", "infer_error", "write_error", "mkdir_error"}

\* C1: when the loop reaches a file whose report exists and --overwrite is
\* not set, the step is a skip: no inference call, the file system unchanged,
\* the loop at the next file; any other file reached enters process_analysis.
\* A skipped file's report is never changed later and the file is never sent
\* to inference.
C1_SkipStep ==
    /\ (pc = "loop" /\ idx <= Len(files)) =>
          IF MirroredReport(files[idx]) \in DOMAIN fs /\ ~overwrite
          THEN calls' = calls /\ fs' = fs /\ pc' = "loop" /\ idx' = idx + 1
          ELSE pc' = "read" /\ idx' = idx /\ calls' = calls
    /\ \A k \in 1..Len(outcome) :
          outcome[k] = "skipped" =>
             /\ fs'[MirroredReport(files[k])] = fs[MirroredReport(files[k])]
             /\ \A c \in 1..Len(calls') :
                   calls'[c].file # relative_to(files[k], repo_path)

C1_SkipExistingReport == [][C1_SkipStep]_vars

\* A run that skipped one file over its old report and analysed another.
C1_Witness ==
    /\ pc = "done"
    /\ \E k \in 1..Len(outcome) :
          outcome[k] = "skipped" /\ fs[MirroredReport(files[k])].content = OldReport
    /\ \E k \in 1..Len(outcome) : outcome[k] = "written"

\* C2: when the file was read and the stream ended without raising, the
\* report written holds exactly the concatenation, in arrival order, of the
\* 'response' of every chunk, a chunk without one counting as empty.
C2_ReportIsConcatenation ==
    (pc = "after" /\ LastOutcome = "written") =>
        /\ is_file(fs, output_file)
        /\ fs[output_file].content = Responses(received)

\* A report written from two chunks, one of them without a 'response'.
C2_Witness ==
    /\ pc = "after"
    /\ LastOutcome = "written"
    /\ Len(received) = 2
    /\ "response" \notin DOMAIN received[1]
    /\ fs[output_file].content = <<"x", NL>>

\* C3 as stated: the report lies in the directory of the source file, named
\* as the source file with ".md" appended, its directory existing.
C3_SiblingReport ==
    (pc = "after" /\ LastOutcome = "written") =>
        /\ parent(output_file) = parent(files[idx])
        /\ name(output_file) = name(files[idx]) \o <<".md">>
        /\ is_dir(fs, parent(output_file))

\* C3 as amended: the report lies under <root>/analysis at the source file's
\* root-relative path with ".md" appended to the name, and its parent
\* directories exist from before the inference call to the write.
C3_MirroredReport ==
    /\ output_file # NoPath => output_file = MirroredReport(files[idx])
    /\ (pc \in {"generate", "stream", "write"} \/ (pc = "after" /\ LastOutcome = "written")) =>
          /\ output_file # NoPath
          /\ \A q \in Prefixes(parent(output_file)) : is_dir(fs, q)
    /\ (pc = "after" /\ LastOutcome = "written") => is_file(fs, output_file)

\* The report of lib/b.ts written where no analysis directory existed.
C3_Witness ==
    /\ pc = "after"
    /\ LastOutcome = "written"
    /\ files[idx] = repo_path \o <<<<"lib">>, <<"b", ".ts">>>>
    /\ ~exists(before, repo_path \o <<<<"analysis">>>>)
    /\ is_file(fs, repo_path \o <<<<"analysis">>, <<"lib">>, <<"b", ".ts", ".md">>>>)

\* C4: a failure on a file logs exactly one error for it and never aborts
\* the run: the loop goes on to the later files.
C4_LogAndSkip ==
    /\ pc # "crashed"
    /\ \A k \in 1..Len(outcome) :
          outcome[k] \in Failures => ErrorsLogged(files[k]) = 1
    /\ pc = "done" => Len(outcome) = Len(files)

\* C5: right after the listing, the listed files are exactly the regular
\* files below the root whose name ends with the pattern, with no path
\* component ".git", whose root-relative path the last matching rule of
\* .gitignore followed by .botignore does not exclude; only listed files are
\* sent to inference or get a report.
C5_Expected ==
    LET rules == load_ignore_patterns(fs, repo_path, <<<<".gitignore">>, <<".botignore">>>>)
        hit(i, rel) == \E c \in 1..Len(rel) : rel[c] = rules[i].name
        ignored(rel) ==
            \E i \in 1..Len(rules) :
                /\ rules[i].include = "yes" /\ hit(i, rel)
                /\ \A j \in (i+1)..Len(rules) : ~(rules[j].include = "no" /\ hit(j, rel))
    IN  {p \in DOMAIN fs :
            /\ Len(p) > Len(repo_path)
            /\ SubSeq(p, 1, Len(repo_path)) = repo_path
            /\ fs[p].kind = "file"
            /\ Len(name(p)) >= Len(pattern)
            /\ SubSeq(name(p), Len(name(p)) - Len(pattern) + 1, Len(name(p))) = pattern
            /\ \A k \in 1..Len(p) : p[k] # <<".git">>
            /\ ~ignored(relative_to(p, repo_path))}

C5_OnlyListedFiles ==
    /\ (pc = "loop" /\ idx = 1) => {files[k] : k \in 1..Len(files)} = C5_Expected
    /\ pc # "start" => Cardinality({files[k] : k \in 1..Len(files)}) = Len(files)
    /\ \A c \in 1..Len(calls) :
          \E k \in 1..Len(files) : calls[c].file = relative_to(files[k], repo_path)
    /\ \A p \in DOMAIN fs :
          (is_file(fs, p) /\ (p \notin DOMAIN before \/ before[p] # fs[p])) =>
              \E k \in 1..Len(files) : p = MirroredReport(files[k])

\* Both ignore files present: lib/b.ts, excluded and re-included, is the
\* one file listed and analysed.
C5_Witness ==
    /\ pc = "done"
    /\ exists(fs, repo_path \o <<<<".gitignore">>>>)
    /\ exists(fs, repo_path \o <<<<".botignore">>>>)
    /\ files = <<repo_path \o <<<<"lib">>, <<"b", ".ts">>>>>>
    /\ Len(calls) = 1

\* C6: the inference call is issued at most once per file, in list order,
\* and only for the file the loop is at, every earlier file being finished.
C6_OneCallOneFileAtATime ==
    /\ \A c, d \in 1..Len(calls) : calls[c].file = calls[d].file => c = d
    /\ Len(calls) <= Len(outcome) + 1
    /\ \A c \in 1..Len(calls) :
          \E k \in 1..Len(files) :
             /\ k <= idx
             /\ calls[c].file = relative_to(files[k], repo_path)
             /\ (c < Len(calls) => k < idx)
    /\ InFlight => Len(outcome) = idx - 1
    /\ pc \in {"stream", "write"} =>
          /\ calls # <<>>
          /\ calls[Len(calls)].file = relative_to(files[idx], repo_path)

\* A second file in its stream after the first file's inference failed.
C6_Witness ==
    /\ pc = "stream"
    /\ idx = 2
    /\ outcome = <<"infer_error">>
    /\ Len(calls) = 2

\* C7: after every fragment the line buffer joined with newlines is the
\* concatenation of the fragments received so far, and the stream panel
\* shows the last two lines of that text.
C7_PreviewTracksStream ==
    (InFlight \/ pc = "after") =>
        /\ join(buffer) = Responses(received)
        /\ received # <<>> =>
              /\ stream_panel.text = LastTwoLines(Responses(received))
              /\ stream_panel.title = name(files[idx])

\* Fragments "x" and "\n\n" received: the panel shows two empty lines.
C7_Witness ==
    /\ pc = "stream"
    /\ Len(received) = 2
    /\ Responses(received) = <<"x", NL, NL>>
    /\ received[2].response = <<NL, NL>>
    /\ buffer = <<<<"x">>, <<>>, <<>>>>
    /\ stream_panel.text = <<NL>>

\* C8: when the read fails, or the inference call or stream raises, no file
\* is written: every file is as it was when the analysis was entered, so an
\* old report keeps its content and a missing report stays missing.
C8_NoReportOnFailure ==
    (pc = "after" /\ LastOutcome \in {"read_error", "infer_error"}) =>
        /\ \A p \in DOMAIN fs : is_file(fs, p) => (p \in DOMAIN before /\ before[p] = fs[p])
        /\ \A p \in DOMAIN before : p \in DOMAIN fs

\* With --overwrite, a stream that raised after a fragment left the old report.
C8_Witness ==
    /\ pc = "after"
    /\ LastOutcome = "infer_error"
    /\ overwrite
    /\ analysis # <<>>
    /\ output_file \in DOMAIN fs
    /\ fs[output_file].content = OldReport

\* C9: "Completed analysis" is logged for a file only if its report was
\* written in this run from a stream that ended without error.
C9_CompletedOnlyOnSuccess ==
    \A k \in 1..Len(outcome) :
        Logged("info", "completed", relative_to(files[k], repo_path)) > 0
            => outcome[k] = "written"

====
